---- MODULE Spec2Model ----
(***************************************************************************)
(* Model of make.py (linux-on-litex-vexriscv): the board registry, the     *)
(* per-board SoC parameter resolution, the capability-driven peripheral    *)
(* assembly and the build/DTS/load/doc orchestration of main().            *)
(*                                                                         *)
(* Strings that the program transforms character by character (the board   *)
(* name given with --board) are tuples of one-character strings, so that   *)
(* str.lower() and str.replace(" ", "_") are computed, not assumed.        *)
(* Python dicts are functions whose domain is the set of keys present.     *)
(***************************************************************************)
EXTENDS Integers, Sequences, FiniteSets, TLC

VARIABLES
    args,              \* argparse namespace (args.board is rewritten at lines 474-475)
    raw_board,         \* the --board value as typed by the user (history of args.board)
    pc,                \* position of main() in its code
    board_names,       \* list built at lines 471-476
    idx,               \* position of the for loop of line 479 in board_names
    board,             \* descriptor instance built at line 480
    Board_soc_kwargs,  \* the class attribute Board.soc_kwargs (one dict, shared)
    soc,               \* the SoC under construction, with the calls made on it
    pipeline,          \* collaborator steps run so far for the current board
    finished,          \* number of boards whose pipeline ran to its last line
    error              \* exception that left main(), "" while none

vars == <<args, raw_board, pc, board_names, idx, board, Board_soc_kwargs, soc,
          pipeline, finished, error>>

\* ---------------------------------------------------------------- dicts

EmptyDict == [k \in {} |-> TRUE]

\* dict.update(other): keys of other overwrite, the rest is kept
Update(d, other) ==
    [k \in (DOMAIN d) \cup (DOMAIN other) |->
        IF k \in DOMAIN other THEN other[k] ELSE d[k]]

\* ---------------------------------------------------------------- boards

kB == 1024

SpiFlashConsts(page, sector, dummy) ==
    [SPIFLASH_PAGE_SIZE |-> page, SPIFLASH_SECTOR_SIZE |-> sector,
     SPIFLASH_DUMMY_CYCLES |-> dummy]

\* Board.soc_kwargs as the class statement leaves it
BoardDefaults == ("integrated_rom_size" :> 65536)

\* Each class below is the instance its constructor returns together with the
\* class attributes read through it: declares_soc_kwargs tells whether the class
\* body assigns soc_kwargs (the attribute then is that dict, own_soc_kwargs) or
\* inherits Board.soc_kwargs (the attribute then IS the shared dict); consts are
\* the SPIFLASH_* class attributes (inherited by ArtyA7 and ArtyS7 from Arty);
\* loader is "programmer" for Board.load and names the utility of an override.

AcornCLE215 ==
    [cls |-> "AcornCLE215", soc_cls |-> "acorn_cle_215.BaseSoC",
     soc_capabilities |-> {"serial", "sata"},
     bitstream_ext |-> ".bit",
     declares_soc_kwargs |-> FALSE,
     own_soc_kwargs |-> EmptyDict,
     consts |-> EmptyDict,
     loader |-> "programmer"]

Arty ==
    [cls |-> "Arty", soc_cls |-> "arty.BaseSoC",
     soc_capabilities |-> {"serial", "ethernet", "spiflash", "spisdcard", "leds", "rgb_led", "switches", "spi", "i2c", "xadc", "mmcm", "icap_bitstream"},
     bitstream_ext |-> ".bit",
     declares_soc_kwargs |-> FALSE,
     own_soc_kwargs |-> EmptyDict,
     consts |-> SpiFlashConsts(256, 64*kB, 11),
     loader |-> "programmer"]

ArtyA7 ==
    [cls |-> "ArtyA7", soc_cls |-> "arty.BaseSoC",
     soc_capabilities |-> {"serial", "ethernet", "spiflash", "spisdcard", "leds", "rgb_led", "switches", "spi", "i2c", "xadc", "mmcm", "icap_bitstream"},
     bitstream_ext |-> ".bit",
     declares_soc_kwargs |-> FALSE,
     own_soc_kwargs |-> EmptyDict,
     consts |-> SpiFlashConsts(256, 64*kB, 7),
     loader |-> "programmer"]

ArtyS7 ==
    [cls |-> "ArtyS7", soc_cls |-> "arty_s7.BaseSoC",
     soc_capabilities |-> {"serial", "spiflash", "spisdcard", "leds", "rgb_led", "switches", "spi", "i2c", "xadc", "mmcm", "icap_bitstream"},
     bitstream_ext |-> ".bit",
     declares_soc_kwargs |-> FALSE,
     own_soc_kwargs |-> EmptyDict,
     consts |-> SpiFlashConsts(256, 64*kB, 11),
     loader |-> "programmer"]

NeTV2 ==
    [cls |-> "NeTV2", soc_cls |-> "netv2.BaseSoC",
     soc_capabilities |-> {"serial", "ethernet", "spiflash", "spisdcard", "leds", "framebuffer", "xadc"},
     bitstream_ext |-> ".bit",
     declares_soc_kwargs |-> FALSE,
     own_soc_kwargs |-> EmptyDict,
     consts |-> SpiFlashConsts(256, 64*kB, 11),
     loader |-> "programmer"]

Genesys2 ==
    [cls |-> "Genesys2", soc_cls |-> "genesys2.BaseSoC",
     soc_capabilities |-> {"usb_fifo", "ethernet", "spisdcard"},
     bitstream_ext |-> ".bit",
     declares_soc_kwargs |-> FALSE,
     own_soc_kwargs |-> EmptyDict,
     consts |-> EmptyDict,
     loader |-> "programmer"]

KC705 ==
    [cls |-> "KC705", soc_cls |-> "kc705.BaseSoC",
     soc_capabilities |-> {"serial", "ethernet", "spisdcard", "leds", "xadc"},
     bitstream_ext |-> ".bit",
     declares_soc_kwargs |-> TRUE,
     own_soc_kwargs |-> ("uart_baudrate" :> 500000),
     consts |-> EmptyDict,
     loader |-> "programmer"]

KCU105 ==
    [cls |-> "KCU105", soc_cls |-> "kcu105.BaseSoC",
     soc_capabilities |-> {"serial", "ethernet", "spisdcard"},
     bitstream_ext |-> ".bit",
     declares_soc_kwargs |-> TRUE,
     own_soc_kwargs |-> ("uart_baudrate" :> 115200),
     consts |-> EmptyDict,
     loader |-> "programmer"]

ZCU104 ==
    [cls |-> "ZCU104", soc_cls |-> "zcu104.BaseSoC",
     soc_capabilities |-> {"serial"},
     bitstream_ext |-> ".bit",
     declares_soc_kwargs |-> FALSE,
     own_soc_kwargs |-> EmptyDict,
     consts |-> EmptyDict,
     loader |-> "programmer"]

Nexys4DDR ==
    [cls |-> "Nexys4DDR", soc_cls |-> "nexys4ddr.BaseSoC",
     soc_capabilities |-> {"serial", "ethernet", "spisdcard"},
     bitstream_ext |-> ".bit",
     declares_soc_kwargs |-> FALSE,
     own_soc_kwargs |-> EmptyDict,
     consts |-> EmptyDict,
     loader |-> "programmer"]

NexysVideo ==
    [cls |-> "NexysVideo", soc_cls |-> "nexys_video.BaseSoC",
     soc_capabilities |-> {"usb_fifo", "spisdcard", "framebuffer"},
     bitstream_ext |-> ".bit",
     declares_soc_kwargs |-> FALSE,
     own_soc_kwargs |-> EmptyDict,
     consts |-> EmptyDict,
     loader |-> "programmer"]

MiniSpartan6 ==
    [cls |-> "MiniSpartan6", soc_cls |-> "minispartan6.BaseSoC",
     soc_capabilities |-> {"usb_fifo", "spisdcard"},
     bitstream_ext |-> ".bit",
     declares_soc_kwargs |-> TRUE,
     own_soc_kwargs |-> ("sdram_sys2x" :> TRUE),
     consts |-> EmptyDict,
     loader |-> "programmer"]

Pipistrello ==
    [cls |-> "Pipistrello", soc_cls |-> "pipistrello.BaseSoC",
     soc_capabilities |-> {"serial"},
     bitstream_ext |-> ".bit",
     declares_soc_kwargs |-> FALSE,
     own_soc_kwargs |-> EmptyDict,
     consts |-> EmptyDict,
     loader |-> "programmer"]

XCU1525 ==
    [cls |-> "XCU1525", soc_cls |-> "xcu1525.BaseSoC",
     soc_capabilities |-> {"serial", "sata"},
     bitstream_ext |-> ".bit",
     declares_soc_kwargs |-> FALSE,
     own_soc_kwargs |-> EmptyDict,
     consts |-> EmptyDict,
     loader |-> "programmer"]

VersaECP5 ==
    [cls |-> "VersaECP5", soc_cls |-> "versa_ecp5.BaseSoC",
     soc_capabilities |-> {"serial", "ethernet", "spiflash"},
     bitstream_ext |-> ".svf",
     declares_soc_kwargs |-> FALSE,
     own_soc_kwargs |-> EmptyDict,
     consts |-> SpiFlashConsts(256, 64*kB, 11),
     loader |-> "programmer"]

ULX3S ==
    [cls |-> "ULX3S", soc_cls |-> "ulx3s.BaseSoC",
     soc_capabilities |-> {"serial", "spisdcard"},
     bitstream_ext |-> ".svf",
     declares_soc_kwargs |-> FALSE,
     own_soc_kwargs |-> EmptyDict,
     consts |-> EmptyDict,
     loader |-> "programmer"]

HADBadge ==
    [cls |-> "HADBadge", soc_cls |-> "hadbadge.BaseSoC",
     soc_capabilities |-> {"serial", "spiflash"},
     bitstream_ext |-> ".bit",
     declares_soc_kwargs |-> FALSE,
     own_soc_kwargs |-> EmptyDict,
     consts |-> SpiFlashConsts(256, 64*kB, 8),
     loader |-> "dfu-util"]

OrangeCrab ==
    [cls |-> "OrangeCrab", soc_cls |-> "orangecrab.BaseSoC",
     soc_capabilities |-> {"usb_acm", "spisdcard"},
     bitstream_ext |-> ".bit",
     declares_soc_kwargs |-> TRUE,
     own_soc_kwargs |-> ("sys_clk_freq" :> 64000000) @@ ("integrated_rom_size" :> 40960),
     consts |-> EmptyDict,
     loader |-> "programmer"]

CamLink4K ==
    [cls |-> "CamLink4K", soc_cls |-> "camlink_4k.BaseSoC",
     soc_capabilities |-> {"serial"},
     bitstream_ext |-> ".bit",
     declares_soc_kwargs |-> FALSE,
     own_soc_kwargs |-> EmptyDict,
     consts |-> EmptyDict,
     loader |-> "camlink"]

TrellisBoard ==
    [cls |-> "TrellisBoard", soc_cls |-> "trellisboard.BaseSoC",
     soc_capabilities |-> {"serial", "spisdcard"},
     bitstream_ext |-> ".svf",
     declares_soc_kwargs |-> FALSE,
     own_soc_kwargs |-> EmptyDict,
     consts |-> EmptyDict,
     loader |-> "programmer"]

ECPIX5 ==
    [cls |-> "ECPIX5", soc_cls |-> "ecpix5.BaseSoC",
     soc_capabilities |-> {"serial", "ethernet", "sdcard"},
     bitstream_ext |-> ".svf",
     declares_soc_kwargs |-> FALSE,
     own_soc_kwargs |-> EmptyDict,
     consts |-> EmptyDict,
     loader |-> "programmer"]

De10Lite ==
    [cls |-> "De10Lite", soc_cls |-> "de10lite.BaseSoC",
     soc_capabilities |-> {"serial"},
     bitstream_ext |-> ".sof",
     declares_soc_kwargs |-> FALSE,
     own_soc_kwargs |-> EmptyDict,
     consts |-> EmptyDict,
     loader |-> "programmer"]

De10Nano ==
    [cls |-> "De10Nano", soc_cls |-> "de10nano.BaseSoC",
     soc_capabilities |-> {"serial", "spisdcard", "leds", "switches"},
     bitstream_ext |-> ".sof",
     declares_soc_kwargs |-> TRUE,
     own_soc_kwargs |-> ("with_mister_sdram" :> TRUE),
     consts |-> EmptyDict,
     loader |-> "programmer"]

De0Nano ==
    [cls |-> "De0Nano", soc_cls |-> "de0nano.BaseSoC",
     soc_capabilities |-> {"serial"},
     bitstream_ext |-> ".sof",
     declares_soc_kwargs |-> TRUE,
     own_soc_kwargs |-> ("integrated_rom_size" :> 32768),
     consts |-> EmptyDict,
     loader |-> "programmer"]

Qmtech_EP4CE15 ==
    [cls |-> "Qmtech_EP4CE15", soc_cls |-> "qmtech_ep4ce15.BaseSoC",
     soc_capabilities |-> {"serial"},
     bitstream_ext |-> ".sof",
     declares_soc_kwargs |-> TRUE,
     own_soc_kwargs |-> ("integrated_sram_size" :> 2048) @@ ("integrated_rom_size" :> 32768),
     consts |-> EmptyDict,
     loader |-> "programmer"]

ClassOf(cls) ==
    CASE
         cls = "AcornCLE215" -> AcornCLE215
      [] cls = "Arty" -> Arty
      [] cls = "ArtyA7" -> ArtyA7
      [] cls = "ArtyS7" -> ArtyS7
      [] cls = "NeTV2" -> NeTV2
      [] cls = "Genesys2" -> Genesys2
      [] cls = "KC705" -> KC705
      [] cls = "KCU105" -> KCU105
      [] cls = "ZCU104" -> ZCU104
      [] cls = "Nexys4DDR" -> Nexys4DDR
      [] cls = "NexysVideo" -> NexysVideo
      [] cls = "MiniSpartan6" -> MiniSpartan6
      [] cls = "Pipistrello" -> Pipistrello
      [] cls = "XCU1525" -> XCU1525
      [] cls = "VersaECP5" -> VersaECP5
      [] cls = "ULX3S" -> ULX3S
      [] cls = "HADBadge" -> HADBadge
      [] cls = "OrangeCrab" -> OrangeCrab
      [] cls = "CamLink4K" -> CamLink4K
      [] cls = "TrellisBoard" -> TrellisBoard
      [] cls = "ECPIX5" -> ECPIX5
      [] cls = "De10Lite" -> De10Lite
      [] cls = "De10Nano" -> De10Nano
      [] cls = "De0Nano" -> De0Nano
      [] cls = "Qmtech_EP4CE15" -> Qmtech_EP4CE15

\* the registry, in declaration order (dict order is insertion order)
supported_boards == <<
    [key |-> <<"a","c","o","r","n","_","c","l","e","_","2","1","5">>,
     cls |-> "AcornCLE215"],
    [key |-> <<"a","r","t","y">>,
     cls |-> "Arty"],
    [key |-> <<"a","r","t","y","_","a","7">>,
     cls |-> "ArtyA7"],
    [key |-> <<"a","r","t","y","_","s","7">>,
     cls |-> "ArtyS7"],
    [key |-> <<"n","e","t","v","2">>,
     cls |-> "NeTV2"],
    [key |-> <<"g","e","n","e","s","y","s","2">>,
     cls |-> "Genesys2"],
    [key |-> <<"k","c","7","0","5">>,
     cls |-> "KC705"],
    [key |-> <<"k","c","u","1","0","5">>,
     cls |-> "KCU105"],
    [key |-> <<"z","c","u","1","0","4">>,
     cls |-> "ZCU104"],
    [key |-> <<"n","e","x","y","s","4","d","d","r">>,
     cls |-> "Nexys4DDR"],
    [key |-> <<"n","e","x","y","s","_","v","i","d","e","o">>,
     cls |-> "NexysVideo"],
    [key |-> <<"m","i","n","i","s","p","a","r","t","a","n","6">>,
     cls |-> "MiniSpartan6"],
    [key |-> <<"p","i","p","i","s","t","r","e","l","l","o">>,
     cls |-> "Pipistrello"],
    [key |-> <<"x","c","u","1","5","2","5">>,
     cls |-> "XCU1525"],
    [key |-> <<"v","e","r","s","a","_","e","c","p","5">>,
     cls |-> "VersaECP5"],
    [key |-> <<"u","l","x","3","s">>,
     cls |-> "ULX3S"],
    [key |-> <<"h","a","d","b","a","d","g","e">>,
     cls |-> "HADBadge"],
    [key |-> <<"o","r","a","n","g","e","c","r","a","b">>,
     cls |-> "OrangeCrab"],
    [key |-> <<"c","a","m","l","i","n","k","_","4","k">>,
     cls |-> "CamLink4K"],
    [key |-> <<"t","r","e","l","l","i","s","b","o","a","r","d">>,
     cls |-> "TrellisBoard"],
    [key |-> <<"e","c","p","i","x","5">>,
     cls |-> "ECPIX5"],
    [key |-> <<"d","e","0","n","a","n","o">>,
     cls |-> "De0Nano"],
    [key |-> <<"d","e","1","0","l","i","t","e">>,
     cls |-> "De10Lite"],
    [key |-> <<"d","e","1","0","n","a","n","o">>,
     cls |-> "De10Nano"],
    [key |-> <<"q","m","t","e","c","h","_","e","p","4","c","e","1","5">>,
     cls |-> "Qmtech_EP4CE15"]
>>

RegistryKeys == [n \in 1..Len(supported_boards) |-> supported_boards[n].key]

\* mutant of Entries: a miss falls back to the first entry instead of failing
Entries_FirstOnMiss(board_name) ==
    IF \E n \in 1..Len(supported_boards) : supported_boards[n].key = board_name
    THEN {n \in 1..Len(supported_boards) : supported_boards[n].key = board_name}
    ELSE {1}

\* supported_boards[board_name]: the entries stored under that key
Entries(board_name) ==
    {n \in 1..Len(supported_boards) : supported_boards[n].key = board_name}

InRegistry(board_name) == Entries(board_name) # {}

Lookup(board_name) ==
    supported_boards[CHOOSE n \in Entries(board_name) : TRUE].cls

\* ---------------------------------------------------------------- strings

UpperChars == <<"A","B","C","D","E","F","G","H","I","J","K","L","M",
                "N","O","P","Q","R","S","T","U","V","W","X","Y","Z">>
LowerChars == <<"a","b","c","d","e","f","g","h","i","j","k","l","m",
                "n","o","p","q","r","s","t","u","v","w","x","y","z">>

LowerChar(c) ==
    IF \E n \in 1..Len(UpperChars) : UpperChars[n] = c
    THEN LowerChars[CHOOSE n \in 1..Len(UpperChars) : UpperChars[n] = c]
    ELSE c

\* str.lower()
Lower(s) == [n \in 1..Len(s) |-> LowerChar(s[n])]

\* str.replace(" ", "_")
ReplaceSpace(s) == [n \in 1..Len(s) |-> IF s[n] = " " THEN "_" ELSE s[n]]

\* mutant of Normalize: the replace of line 475 is forgotten
Normalize_LowerOnly(s) == Lower(s)

\* lines 474-475
Normalize(s) == ReplaceSpace(Lower(s))

AllBoards == <<"a","l","l">>

\* ---------------------------------------------------------------- inputs

\* soc_linux.video_resolutions: the keys main() tests, each with a timing record
video_resolutions ==
    [m \in {"1920x1080_60Hz", "1280x720_60Hz"} |->
        IF m = "1920x1080_60Hz"
        THEN [h_active |-> 1920, v_active |-> 1080, refresh |-> 60]
        ELSE [h_active |-> 1280, v_active |-> 720, refresh |-> 60]]

\* --board values tried besides the registry keys themselves
ExtraNames == {
    <<"a","l","l">>,
    <<"A","L","L">>,
    <<"A","r","t","y"," ","A","7">>,
    <<"A","R","T","Y","_","A","7">>,
    <<"a","r","t","y"," ","a","7">>,
    <<"N","e","T","V","2">>,
    <<"N","e","x","y","s"," ","V","i","d","e","o">>,
    <<"n","o","t","_","a","_","b","o","a","r","d">>,
    <<"N","o","t"," ","A"," ","B","o","a","r","d">>
}

RawBoards == {supported_boards[n].key : n \in 1..Len(supported_boards)} \cup ExtraNames

\* an optional flag is <<>> when the user did not pass it (None), <<v>> otherwise
Devices    == {<<>>, <<"xc7a100t">>}
Variants   == {<<>>, <<"a7-100">>}
Toolchains == {<<>>, <<"symbiflow">>}
VideoModes == {"1920x1080_60Hz", "1280x720_60Hz", "999x999_1Hz"}

\* lines 452-464, with the defaults of the flags that are not varied
ArgSpace(boards, devices, variants, toolchains, switches, widths) ==
    [board : boards, device : devices, variant : variants, toolchain : toolchains,
     build : switches, load : switches, doc : switches,
     local_ip : {"192.168.1.50"}, remote_ip : {"192.168.1.100"},
     spi_data_width : widths, spi_clk_freq : {1000000},
     video : VideoModes]

NoBoard ==
    [cls |-> "", soc_cls |-> "", soc_capabilities |-> {}, bitstream_ext |-> "",
     declares_soc_kwargs |-> FALSE, own_soc_kwargs |-> EmptyDict,
     consts |-> EmptyDict, loader |-> ""]

NoSoC ==
    [constructed |-> FALSE, soc_cls |-> "", kwargs |-> EmptyDict,
     calls |-> <<>>, extensions |-> <<>>]

Init ==
    /\ args \in ArgSpace(RawBoards, Devices, Variants, Toolchains, BOOLEAN, {8})
    /\ raw_board = args.board
    /\ pc = "select"
    /\ board_names = <<>>
    /\ idx = 0
    /\ board = NoBoard
    /\ Board_soc_kwargs = BoardDefaults
    /\ soc = NoSoC
    /\ pipeline = <<>>
    /\ finished = 0
    /\ error = ""

\* ---------------------------------------------------------------- control

\* mutant of Order: the spiflash statement is placed before the mmcm one
Order_FlashBeforeMmcm ==
    <<"extension",
      "spiflash", "mmcm", "spisdcard", "sdcard", "ethernet", "rgb_led",
      "switches", "spi", "i2c", "xadc", "framebuffer", "icap_bitstream",
      "configure_boot",
      "build", "generate_dts", "compile_dts", "load", "doc">>

\* mutant of Order: configure_boot is placed before the icap_bitstream statement
Order_BootBeforeIcap ==
    <<"extension",
      "mmcm", "spiflash", "spisdcard", "sdcard", "ethernet", "rgb_led",
      "switches", "spi", "i2c", "xadc", "framebuffer", "configure_boot",
      "icap_bitstream",
      "build", "generate_dts", "compile_dts", "load", "doc">>

\* the statements of the loop body after SoC creation, in textual order
\* mutant of Order: the bitstream is loaded before the device tree is generated
Order_LoadBeforeDts ==
    <<"extension",
      "mmcm", "spiflash", "spisdcard", "sdcard", "ethernet", "rgb_led",
      "switches", "spi", "i2c", "xadc", "framebuffer", "icap_bitstream",
      "configure_boot",
      "build", "load", "generate_dts", "compile_dts", "doc">>

Order ==
    <<"extension",
      "mmcm", "spiflash", "spisdcard", "sdcard", "ethernet", "rgb_led",
      "switches", "spi", "i2c", "xadc", "framebuffer", "icap_bitstream",
      "configure_boot",
      "build", "generate_dts", "compile_dts", "load", "doc">>

\* the statement after `at`; after the last one the for loop takes over
After(at) ==
    LET n == CHOOSE m \in 1..Len(Order) : Order[m] = at
    IN  IF n < Len(Order) THEN Order[n + 1] ELSE "for"

\* mutant of Raise: the failure is recorded and the loop goes on to the next board
Raise_NextBoard(exc) ==
    /\ error' = exc
    /\ pc' = "for"

\* an exception nobody catches: it leaves the for loop and main()
Raise(exc) ==
    /\ error' = exc
    /\ pc' = "exit"

board_name == board_names[idx]

\* lines 471-476: the list of names the loop will look up
Selection(name) ==
    IF name = AllBoards THEN RegistryKeys ELSE <<Normalize(name)>>

\* lines 471-476
SelectBoards ==
    /\ pc = "select"
    /\ board_names' = Selection(args.board)
    /\ args' = IF args.board = AllBoards
               THEN args
               ELSE [args EXCEPT !.board = Normalize(args.board)]
    /\ pc' = "for"
    /\ UNCHANGED <<raw_board, idx, board, Board_soc_kwargs, soc, pipeline,
                   finished, error>>

\* line 479
NextBoard ==
    /\ pc = "for"
    /\ IF idx < Len(board_names)
       THEN /\ idx' = idx + 1
            /\ pc' = "board"
       ELSE /\ idx' = idx
            /\ pc' = "done"
    /\ UNCHANGED <<args, raw_board, board_names, board, Board_soc_kwargs, soc,
                   pipeline, finished, error>>

Step(name, arg) == [arg |-> arg, step |-> name]

\* what a constructor does besides Board.__init__ (OrangeCrab, line 303)
InitSideEffects(cls) ==
    IF cls = "OrangeCrab"
    THEN <<Step("os.system", <<"git clone https://github.com/litex-hub/valentyusb -b hw_cdc_eptri">>)>>
    ELSE <<>>

\* line 480
ConstructBoard ==
    /\ pc = "board"
    /\ IF InRegistry(board_name)
       THEN /\ board' = ClassOf(Lookup(board_name))
            /\ pipeline' = InitSideEffects(Lookup(board_name))
                             \o <<Step("Board.__init__", <<Lookup(board_name)>>)>>
            /\ pc' = "soc_kwargs"
            /\ error' = error
       ELSE /\ Raise("KeyError")
            /\ UNCHANGED <<board, pipeline>>
    /\ UNCHANGED <<args, raw_board, board_names, idx, Board_soc_kwargs, soc,
                   finished>>

\* ---------------------------------------------------------------- SoC parameters

\* board.soc_kwargs: the class's own dict, or the inherited Board.soc_kwargs
BoardAttr(b, shared) ==
    IF b.declares_soc_kwargs THEN b.own_soc_kwargs ELSE shared

\* lines 483-484: soc_kwargs is bound to Board.soc_kwargs itself, then updated
Layered(shared, b) == Update(shared, BoardAttr(b, shared))

\* lines 485-490
CliOverrides(kw, a) ==
    LET k1 == IF a.device # <<>> THEN Update(kw, "device" :> a.device[1]) ELSE kw
        k2 == IF a.variant # <<>> THEN Update(k1, "variant" :> a.variant[1]) ELSE k1
    IN  IF a.toolchain # <<>> THEN Update(k2, "toolchain" :> a.toolchain[1]) ELSE k2

\* mutant of CapabilityForced: the two uart_name statements are exchanged
CapabilityForced_FifoLast(kw, caps) ==
    LET k1 == IF "usb_acm" \in caps THEN Update(kw, "uart_name" :> "usb_acm") ELSE kw
        k2 == IF "usb_fifo" \in caps THEN Update(k1, "uart_name" :> "usb_fifo") ELSE k1
        k3 == IF "ethernet" \in caps THEN Update(k2, "with_ethernet" :> TRUE) ELSE k2
    IN  IF "sata" \in caps THEN Update(k3, "with_sata" :> TRUE) ELSE k3

\* lines 491-498
CapabilityForced(kw, caps) ==
    LET k1 == IF "usb_fifo" \in caps THEN Update(kw, "uart_name" :> "usb_fifo") ELSE kw
        k2 == IF "usb_acm" \in caps THEN Update(k1, "uart_name" :> "usb_acm") ELSE k1
        k3 == IF "ethernet" \in caps THEN Update(k2, "with_ethernet" :> TRUE) ELSE k2
    IN  IF "sata" \in caps THEN Update(k3, "with_sata" :> TRUE) ELSE k3

\* lines 483-498 as one function of the shared dict, the descriptor and the flags
ResolveKwargs(shared, b, a) ==
    CapabilityForced(CliOverrides(Layered(shared, b), a), b.soc_capabilities)

\* lines 483-498: every update is made through the alias, so it is the class
\* attribute Board.soc_kwargs that ends up holding the resolved set
ResolveParameters ==
    /\ pc = "soc_kwargs"
    /\ Board_soc_kwargs' = ResolveKwargs(Board_soc_kwargs, board, args)
    /\ pc' = "soc"
    /\ UNCHANGED <<args, raw_board, board_names, idx, board, soc, pipeline,
                   finished, error>>

\* lines 501-502: SoCLinux(board.soc_cls, **soc_kwargs), which may raise
CreateSoC ==
    /\ pc = "soc"
    /\ \/ /\ soc' = [constructed |-> TRUE, soc_cls |-> board.soc_cls,
                     kwargs |-> Board_soc_kwargs, calls |-> <<>>,
                     extensions |-> <<>>]
          /\ pipeline' = Append(pipeline, Step("SoCLinux", <<board.soc_cls>>))
          /\ pc' = "extension"
          /\ error' = error
       \/ /\ Raise("SoCLinux")
          /\ UNCHANGED <<soc, pipeline>>
    /\ UNCHANGED <<args, raw_board, board_names, idx, board, Board_soc_kwargs,
                   finished>>

\* ---------------------------------------------------------------- SoC peripherals

Call(fn, a) == [args |-> a, fn |-> fn]

\* the part of every peripheral statement that does not touch the SoC
Advance(at) ==
    /\ pc = at
    /\ pc' = After(at)
    /\ UNCHANGED <<args, raw_board, board_names, idx, board, Board_soc_kwargs,
                   pipeline, finished, error>>

\* if <token> in board.soc_capabilities: <calls>
Attached(token, calls) ==
    IF token \in board.soc_capabilities
    THEN [soc EXCEPT !.calls = @ \o calls]
    ELSE soc

\* lines 505-507
add_extension ==
    /\ Advance("extension")
    /\ soc' = IF board_name \in {<<"a","r","t","y">>, <<"a","r","t","y","_","a","7">>}
              THEN [soc EXCEPT !.extensions = Append(@, "_sdcard_pmod_io")]
              ELSE soc

\* lines 509-510
add_mmcm ==
    /\ Advance("mmcm")
    /\ soc' = Attached("mmcm", <<Call("add_mmcm", <<2>>)>>)

\* lines 512-514
SpiFlashCalls(b) ==
    <<Call("add_spi_flash", <<b.consts.SPIFLASH_DUMMY_CYCLES>>),
      Call("add_constant", <<"SPIFLASH_PAGE_SIZE", b.consts.SPIFLASH_PAGE_SIZE>>),
      Call("add_constant", <<"SPIFLASH_SECTOR_SIZE", b.consts.SPIFLASH_SECTOR_SIZE>>)>>

\* lines 511-514
add_spi_flash ==
    /\ Advance("spiflash")
    /\ soc' = Attached("spiflash", SpiFlashCalls(board))

\* lines 515-516
add_spi_sdcard ==
    /\ Advance("spisdcard")
    /\ soc' = Attached("spisdcard", <<Call("add_spi_sdcard", <<>>)>>)

\* lines 517-518
add_sdcard ==
    /\ Advance("sdcard")
    /\ soc' = Attached("sdcard", <<Call("add_sdcard", <<>>)>>)

\* line 520
EthernetCalls(a) == <<Call("configure_ethernet", <<a.local_ip, a.remote_ip>>)>>

\* lines 519-520
configure_ethernet ==
    /\ Advance("ethernet")
    /\ soc' = Attached("ethernet", EthernetCalls(args))

\* lines 523-524
add_rgb_led ==
    /\ Advance("rgb_led")
    /\ soc' = Attached("rgb_led", <<Call("add_rgb_led", <<>>)>>)

\* lines 525-526
add_switches ==
    /\ Advance("switches")
    /\ soc' = Attached("switches", <<Call("add_switches", <<>>)>>)

\* mutant of SpiCalls: the default data width instead of --spi-data-width
SpiCalls_DefaultWidth(a) == <<Call("add_spi", <<8, a.spi_clk_freq>>)>>

\* line 528
SpiCalls(a) == <<Call("add_spi", <<a.spi_data_width, a.spi_clk_freq>>)>>

\* lines 527-528
add_spi ==
    /\ Advance("spi")
    /\ soc' = Attached("spi", SpiCalls(args))

\* lines 529-530
add_i2c ==
    /\ Advance("i2c")
    /\ soc' = Attached("i2c", <<Call("add_i2c", <<>>)>>)

\* lines 531-532
add_xadc ==
    /\ Advance("xadc")
    /\ soc' = Attached("xadc", <<Call("add_xadc", <<>>)>>)

\* lines 535-536
FramebufferCalls(a) == <<Call("add_framebuffer", <<video_resolutions[a.video]>>)>>

\* lines 533-536: the assert raises where it stands; what was attached stays
add_framebuffer ==
    /\ pc = "framebuffer"
    /\ IF "framebuffer" \in board.soc_capabilities
       THEN IF args.video \in DOMAIN video_resolutions
            THEN /\ soc' = [soc EXCEPT !.calls = @ \o FramebufferCalls(args)]
                 /\ pc' = After("framebuffer")
                 /\ error' = error
            ELSE /\ Raise("AssertionError: Unsupported video resolution")
                 /\ soc' = soc
       ELSE /\ soc' = soc
            /\ pc' = After("framebuffer")
            /\ error' = error
    /\ UNCHANGED <<args, raw_board, board_names, idx, board, Board_soc_kwargs,
                   pipeline, finished>>

\* lines 537-538
add_icap_bitstream ==
    /\ Advance("icap_bitstream")
    /\ soc' = Attached("icap_bitstream", <<Call("add_icap_bitstream", <<>>)>>)

\* line 539
configure_boot ==
    /\ Advance("configure_boot")
    /\ soc' = [soc EXCEPT !.calls = Append(@, Call("configure_boot", <<>>))]

\* ---------------------------------------------------------------- build, DTS, load, doc

\* a collaborator step: it runs and is recorded, or it raises
Collaborate(at, steps, exc) ==
    /\ pc = at
    /\ \/ /\ pipeline' = pipeline \o steps
          /\ pc' = After(at)
          /\ error' = error
       \/ /\ exc # ""
          /\ Raise(exc)
          /\ pipeline' = pipeline

\* lines 542-544
build ==
    /\ Collaborate("build", <<Step("builder.build", <<args.build>>)>>, "builder.build")
    /\ UNCHANGED <<args, raw_board, board_names, idx, board, Board_soc_kwargs,
                   soc, finished>>

\* line 547
generate_dts ==
    /\ Collaborate("generate_dts", <<Step("generate_dts", <<board_name>>)>>, "generate_dts")
    /\ UNCHANGED <<args, raw_board, board_names, idx, board, Board_soc_kwargs,
                   soc, finished>>

\* line 548
compile_dts ==
    /\ Collaborate("compile_dts", <<Step("compile_dts", <<board_name>>)>>, "compile_dts")
    /\ UNCHANGED <<args, raw_board, board_names, idx, board, Board_soc_kwargs,
                   soc, finished>>

\* os.path.join(builder.gateware_dir, soc.build_name + board.bitstream_ext)
Bitstream(b) == <<"gateware_dir", "build_name", b.bitstream_ext>>

\* Board.load (lines 23-25) or the override of HADBadge (291-292) and
\* CamLink4K (322-323); os.system returns an exit status and never raises
LoadSteps(b) ==
    <<Step(IF b.loader = "programmer" THEN "load_bitstream" ELSE "os.system",
           <<b.loader, Bitstream(b)>>)>>

LoadError(b) == IF b.loader = "programmer" THEN "load_bitstream" ELSE ""

\* lines 551-552
load ==
    /\ Collaborate("load", IF args.load THEN LoadSteps(board) ELSE <<>>,
                   IF args.load THEN LoadError(board) ELSE "")
    /\ UNCHANGED <<args, raw_board, board_names, idx, board, Board_soc_kwargs,
                   soc, finished>>

\* lines 555-556, the last statement of the loop body
generate_doc ==
    /\ pc = "doc"
    /\ \/ /\ pipeline' = IF args.doc
                         THEN Append(pipeline, Step("generate_doc", <<board_name>>))
                         ELSE pipeline
          /\ pc' = After("doc")
          /\ finished' = finished + 1
          /\ error' = error
       \/ /\ args.doc
          /\ Raise("generate_doc")
          /\ UNCHANGED <<pipeline, finished>>
    /\ UNCHANGED <<args, raw_board, board_names, idx, board, Board_soc_kwargs, soc>>

\* ---------------------------------------------------------------- specification

Assemble ==
    \/ add_extension
    \/ add_mmcm
    \/ add_spi_flash
    \/ add_spi_sdcard
    \/ add_sdcard
    \/ configure_ethernet
    \/ add_rgb_led
    \/ add_switches
    \/ add_spi
    \/ add_i2c
    \/ add_xadc
    \/ add_framebuffer
    \/ add_icap_bitstream
    \/ configure_boot

Pipeline ==
    \/ ResolveParameters
    \/ CreateSoC
    \/ Assemble
    \/ build
    \/ generate_dts
    \/ compile_dts
    \/ load
    \/ generate_doc
    \/ NextBoard

Next ==
    \/ SelectBoards
    \/ ConstructBoard
    \/ Pipeline

Spec == Init /\ [][Next]_vars

\* ---------------------------------------------------------------- any capability set

\* The loop body from line 483 on, run for one descriptor that Board.__init__
\* can build from an arbitrary capability set: the resolution and the assembly
\* are functions of the set, whichever board declares it.

MaxCaps == 2

Tokens ==
    {"serial", "usb_fifo", "usb_acm", "ethernet", "spiflash", "spisdcard",
     "sdcard", "sata", "leds", "rgb_led", "switches", "spi", "i2c", "xadc",
     "framebuffer", "mmcm", "icap_bitstream"}

\* the small sets, the sets lacking at most one token, and the registered ones
CapabilitySets ==
    {S \in SUBSET Tokens : Cardinality(S) <= MaxCaps}
      \cup {Tokens \ S : S \in {T \in SUBSET Tokens : Cardinality(T) <= 1}}
      \cup {ClassOf(supported_boards[n].cls).soc_capabilities :
                n \in 1..Len(supported_boards)}

\* lines 18-21, for a subclass that declares kw as its soc_kwargs (none: EmptyDict)
Descriptor(caps, kw) ==
    [cls |-> "Board", soc_cls |-> "BaseSoC", soc_capabilities |-> caps,
     bitstream_ext |-> ".bit",
     declares_soc_kwargs |-> (kw # EmptyDict), own_soc_kwargs |-> kw,
     consts |-> SpiFlashConsts(256, 64*kB, 11), loader |-> "programmer"]

\* soc_kwargs a subclass may declare: none, or values for the forced keys
DeclaredKwargs ==
    {EmptyDict,
     ("uart_name" :> "serial") @@ ("with_ethernet" :> FALSE)
        @@ ("with_sata" :> FALSE) @@ ("integrated_rom_size" :> 32768)}

\* Board.soc_kwargs as the class statement leaves it, and as earlier boards of
\* an "all" run leave it (after acorn_cle_215 ... genesys2)
SharedDicts ==
    {BoardDefaults,
     BoardDefaults @@ ("uart_name" :> "usb_fifo") @@ ("with_ethernet" :> TRUE)
        @@ ("with_sata" :> TRUE)}

Custom == <<"c","u","s","t","o","m">>

InitCaps ==
    /\ args \in ArgSpace({Custom}, {<<>>}, {<<>>}, {<<>>}, {TRUE}, {8, 16})
    /\ raw_board = args.board
    /\ pc = "soc_kwargs"
    /\ board_names = <<Custom>>
    /\ idx = 1
    /\ \E caps \in CapabilitySets, kw \in DeclaredKwargs : board = Descriptor(caps, kw)
    /\ Board_soc_kwargs \in SharedDicts
    /\ soc = NoSoC
    /\ pipeline = <<Step("Board.__init__", <<"Board">>)>>
    /\ finished = 0
    /\ error = ""

SpecCaps == InitCaps /\ [][Pipeline]_vars

\* ---------------------------------------------------------------- properties

\* the keyword set SoCLinux received is that of the board being processed
SoCOfCurrentBoard ==
    pc \in {Order[n] : n \in 1..Len(Order)} /\ soc.constructed

\* the keyword set a fresh process computes for descriptor b under flags a
FreshKwargs(b, a) == ResolveKwargs(BoardDefaults, b, a)

\* C1 (as claimed): whatever was processed before, the keyword set passed to
\* SoC construction for a board equals the one a fresh process, where
\* Board.soc_kwargs is {integrated_rom_size: 0x10000}, computes for that board
\* alone.
C1_NoLeakBetweenBoards ==
    SoCOfCurrentBoard => soc.kwargs = FreshKwargs(board, args)

\* C1, last clause (as claimed): resolving a board's parameters leaves the
\* class attribute Board.soc_kwargs as the class statement set it.
C1_SharedDictUnchanged ==
    Board_soc_kwargs = BoardDefaults

\* the keys of C3: every key but uart_name, with_ethernet, with_sata (those of C4)
LayerKeys ==
    {"integrated_rom_size", "integrated_sram_size", "uart_baudrate",
     "sys_clk_freq", "sdram_sys2x", "with_mister_sdram",
     "device", "variant", "toolchain"}

\* the three layers of C3, each as the dict of the keys it defines
GlobalLayer == ("integrated_rom_size" :> 65536)
BoardLayer(b) == IF b.declares_soc_kwargs THEN b.own_soc_kwargs ELSE EmptyDict
CliLayer(a) ==
    [k \in {f \in {"device", "variant", "toolchain"} : a[f] # <<>>} |-> a[k][1]]

\* C3 (as claimed): every key other than the capability-forced ones is passed
\* to SoC construction exactly when one of the layers global < board < CLI
\* defines it, with the value of the highest layer defining it; a board that
\* does not declare integrated_rom_size gets 0x10000, and a flag the user did
\* not pass writes no key.
C3_Precedence ==
    SoCOfCurrentBoard =>
        \A k \in LayerKeys :
            LET cli == CliLayer(args)
                brd == BoardLayer(board)
            IN  IF k \in DOMAIN cli
                THEN k \in DOMAIN soc.kwargs /\ soc.kwargs[k] = cli[k]
                ELSE IF k \in DOMAIN brd
                THEN k \in DOMAIN soc.kwargs /\ soc.kwargs[k] = brd[k]
                ELSE IF k \in DOMAIN GlobalLayer
                THEN k \in DOMAIN soc.kwargs /\ soc.kwargs[k] = GlobalLayer[k]
                ELSE k \notin DOMAIN soc.kwargs

CallsOf(fn) == {n \in 1..Len(soc.calls) : soc.calls[n].fn = fn}

VideoError == "AssertionError: Unsupported video resolution"

\* C2 (as claimed): on a board with the framebuffer capability a video mode of
\* the table makes add_framebuffer receive the table's record for that mode,
\* and a video mode outside the table ends the assembly with an error and
\* with no call at all made on that SoC.
C2_VideoPrecondition ==
    /\ ( /\ SoCOfCurrentBoard
         /\ pc \notin {"extension", "mmcm", "spiflash", "spisdcard", "sdcard",
                       "ethernet", "rgb_led", "switches", "spi", "i2c", "xadc",
                       "framebuffer"}
         /\ "framebuffer" \in board.soc_capabilities )
       => /\ args.video \in DOMAIN video_resolutions
          /\ \E n \in CallsOf("add_framebuffer") :
                soc.calls[n].args = <<video_resolutions[args.video]>>
    /\ error = VideoError => soc.calls = <<>>

\* C4: in the keyword set passed to SoC construction, with_ethernet is TRUE
\* whenever "ethernet" is a capability, with_sata is TRUE whenever "sata" is,
\* uart_name is "usb_acm" whenever "usb_acm" is, and "usb_fifo" whenever
\* "usb_fifo" is and "usb_acm" is not; whatever the shared dict, the board or
\* the flags gave those keys is overwritten, and with both USB capabilities
\* the choice is usb_acm for every capability set.
C4_CapabilityForcing ==
    SoCOfCurrentBoard =>
        LET caps == board.soc_capabilities
            kw   == soc.kwargs
        IN  /\ "ethernet" \in caps =>
                "with_ethernet" \in DOMAIN kw /\ kw["with_ethernet"] = TRUE
            /\ "sata" \in caps =>
                "with_sata" \in DOMAIN kw /\ kw["with_sata"] = TRUE
            /\ "usb_acm" \in caps =>
                "uart_name" \in DOMAIN kw /\ kw["uart_name"] = "usb_acm"
            /\ ("usb_fifo" \in caps /\ "usb_acm" \notin caps) =>
                "uart_name" \in DOMAIN kw /\ kw["uart_name"] = "usb_fifo"

\* C4 witness: a board with every capability, both USB ones included, whose
\* own soc_kwargs say uart_name "serial" and with_ethernet/with_sata FALSE,
\* has received usb_acm and TRUE, TRUE.
C4_Witness ==
    /\ SoCOfCurrentBoard
    /\ board.soc_capabilities = Tokens
    /\ board.declares_soc_kwargs
    /\ board.own_soc_kwargs["uart_name"] = "serial"
    /\ soc.kwargs["uart_name"] = "usb_acm"
    /\ soc.kwargs["with_ethernet"] = TRUE
    /\ soc.kwargs["with_sata"] = TRUE

\* the place of a call in the fixed order of C5
CallRank(c) ==
    CASE c.fn = "add_mmcm" -> 1
      [] c.fn = "add_spi_flash" -> 2
      [] c.fn = "add_constant" /\ c.args[1] = "SPIFLASH_PAGE_SIZE" -> 3
      [] c.fn = "add_constant" /\ c.args[1] = "SPIFLASH_SECTOR_SIZE" -> 4
      [] c.fn = "add_spi_sdcard" -> 5
      [] c.fn = "add_sdcard" -> 6
      [] c.fn = "configure_ethernet" -> 7
      [] c.fn = "add_rgb_led" -> 8
      [] c.fn = "add_switches" -> 9
      [] c.fn = "add_spi" -> 10
      [] c.fn = "add_i2c" -> 11
      [] c.fn = "add_xadc" -> 12
      [] c.fn = "add_framebuffer" -> 13
      [] c.fn = "add_icap_bitstream" -> 14
      [] OTHER -> 15

\* C5: the calls recorded on a SoC appear in the order mmcm, spiflash
\* (add_spi_flash, then the page-size constant, then the sector-size constant),
\* spisdcard, sdcard, ethernet, rgb_led, switches, spi, i2c, xadc, framebuffer,
\* icap_bitstream; so add_mmcm always precedes add_spi_flash.
C5_AttachmentOrder ==
    /\ \A m, n \in 1..Len(soc.calls) :
          (m < n /\ CallRank(soc.calls[m]) < 15 /\ CallRank(soc.calls[n]) < 15)
              => CallRank(soc.calls[m]) < CallRank(soc.calls[n])
    /\ \A n \in CallsOf("add_spi_flash") :
          /\ n + 2 <= Len(soc.calls)
          /\ CallRank(soc.calls[n + 1]) = 3
          /\ CallRank(soc.calls[n + 2]) = 4

\* C5 witness: a board with every capability has all fourteen calls recorded,
\* add_mmcm first and add_spi_flash second.
C5_Witness ==
    /\ pc = "configure_boot"
    /\ board.soc_capabilities = Tokens
    /\ Len(soc.calls) = 14
    /\ soc.calls[1].fn = "add_mmcm"
    /\ soc.calls[2].fn = "add_spi_flash"

\* two call sequences agree, call by call, in function and arguments
SameCalls(s, t) ==
    /\ Len(s) = Len(t)
    /\ \A n \in 1..Len(s) : s[n].fn = t[n].fn /\ s[n].args = t[n].args

\* what C6 says each rule-bearing token contributes, from the board constants
\* and the flags only
RuleTable(b, a) ==
    <<[token |-> "mmcm", calls |-> <<[fn |-> "add_mmcm", args |-> <<2>>]>>],
      [token |-> "spiflash", calls |->
          <<[fn |-> "add_spi_flash", args |-> <<b.consts.SPIFLASH_DUMMY_CYCLES>>],
            [fn |-> "add_constant",
             args |-> <<"SPIFLASH_PAGE_SIZE", b.consts.SPIFLASH_PAGE_SIZE>>],
            [fn |-> "add_constant",
             args |-> <<"SPIFLASH_SECTOR_SIZE", b.consts.SPIFLASH_SECTOR_SIZE>>]>>],
      [token |-> "spisdcard", calls |-> <<[fn |-> "add_spi_sdcard", args |-> <<>>]>>],
      [token |-> "sdcard", calls |-> <<[fn |-> "add_sdcard", args |-> <<>>]>>],
      [token |-> "ethernet", calls |->
          <<[fn |-> "configure_ethernet", args |-> <<a.local_ip, a.remote_ip>>]>>],
      [token |-> "rgb_led", calls |-> <<[fn |-> "add_rgb_led", args |-> <<>>]>>],
      [token |-> "switches", calls |-> <<[fn |-> "add_switches", args |-> <<>>]>>],
      [token |-> "spi", calls |->
          <<[fn |-> "add_spi", args |-> <<a.spi_data_width, a.spi_clk_freq>>]>>],
      [token |-> "i2c", calls |-> <<[fn |-> "add_i2c", args |-> <<>>]>>],
      [token |-> "xadc", calls |-> <<[fn |-> "add_xadc", args |-> <<>>]>>],
      [token |-> "framebuffer", calls |->
          IF a.video \in DOMAIN video_resolutions
          THEN <<[fn |-> "add_framebuffer", args |-> <<video_resolutions[a.video]>>]>>
          ELSE <<>>],
      [token |-> "icap_bitstream", calls |->
          <<[fn |-> "add_icap_bitstream", args |-> <<>>]>>]>>

RECURSIVE ExpectedCalls(_, _, _, _)
ExpectedCalls(b, a, caps, n) ==
    IF n > Len(RuleTable(b, a))
    THEN <<[fn |-> "configure_boot", args |-> <<>>]>>
    ELSE (IF RuleTable(b, a)[n].token \in caps THEN RuleTable(b, a)[n].calls ELSE <<>>)
            \o ExpectedCalls(b, a, caps, n + 1)

\* the assembly of the current board ran to its last statement
Assembled ==
    /\ SoCOfCurrentBoard
    /\ pc \in {"build", "generate_dts", "compile_dts", "load", "doc"}

\* C6: once the assembly of a board has run to its end, the calls recorded on
\* its SoC are those of the tokens of {mmcm, spiflash, spisdcard, sdcard,
\* ethernet, rgb_led, switches, spi, i2c, xadc, framebuffer, icap_bitstream}
\* that are in the capability set, each made once, none for a token not in
\* the set (so none for serial, usb_fifo, usb_acm, sata, leds, and no error
\* from them), with arguments from the board constants and the flags; the
\* sequence is a function of capability set, constants and flags.  An assembly
\* that the video assertion stops is the case of C2.
C6_CallsFollowCapabilities ==
    Assembled =>
        /\ error = ""
        /\ SameCalls(soc.calls,
                     ExpectedCalls(board, args, board.soc_capabilities, 1))
        /\ \A n \in 1..Len(RuleTable(board, args)) :
              LET r == RuleTable(board, args)[n]
                  made == {m \in 1..Len(soc.calls) :
                              \E k \in 1..Len(r.calls) :
                                  /\ soc.calls[m].fn = r.calls[k].fn
                                  /\ soc.calls[m].args = r.calls[k].args}
              IN  Cardinality(made) =
                      IF r.token \in board.soc_capabilities THEN Len(r.calls) ELSE 0

\* C6 witness: with capabilities {spi, leds} and --spi-data-width 16 the
\* assembly ended having made add_spi(16, 1000000) and configure_boot only.
C6_Witness ==
    /\ pc = "build"
    /\ board.soc_capabilities = {"spi", "leds"}
    /\ args.spi_data_width = 16
    /\ Len(soc.calls) = 2
    /\ soc.calls[1].fn = "add_spi"
    /\ soc.calls[1].args = <<16, 1000000>>

\* C7: configure_boot is called at most once on a SoC and nothing is called
\* after it; once the assembly is over (so before the build starts, and in
\* every later step) it has been called exactly once, after every other call,
\* whatever the capability set, the empty one included.
C7_BootLast ==
    /\ Cardinality(CallsOf("configure_boot")) <= 1
    /\ \A n \in CallsOf("configure_boot") : n = Len(soc.calls)
    /\ Assembled => Cardinality(CallsOf("configure_boot")) = 1
    /\ (\E n \in 1..Len(pipeline) : pipeline[n].step = "builder.build")
          => Cardinality(CallsOf("configure_boot")) = 1

\* C7 witness: for the empty capability set the build step is about to start
\* and configure_boot is the only call made.
C7_Witness ==
    /\ pc = "build"
    /\ board.soc_capabilities = {}
    /\ Len(soc.calls) = 1
    /\ soc.calls[1].fn = "configure_boot"

\* the registry entries stored under a name, read off the registry itself
Hits(name) ==
    {n \in 1..Len(supported_boards) : supported_boards[n].key = name}

\* C8: once the lookup of line 480 is over, a name stored in the registry has
\* given the descriptor of the one class registered under it, and a name that
\* is not stored ("not_a_board") has raised KeyError with no descriptor, no
\* SoC, no attachment, no build, device-tree, load or documentation step and
\* no board processed.
C8_RegistryResolution ==
    (idx >= 1 /\ pc # "board") =>
        IF Hits(board_name) = {}
        THEN /\ error = "KeyError"
             /\ pc = "exit"
             /\ board = NoBoard
             /\ soc = NoSoC
             /\ pipeline = <<>>
             /\ finished = 0
        ELSE /\ Cardinality(Hits(board_name)) = 1
             /\ \A n \in Hits(board_name) : board = ClassOf(supported_boards[n].cls)
             /\ error # "KeyError"

\* C8 witness: --board "Not A Board" has ended in KeyError.
C8_Witness ==
    /\ raw_board = <<"N","o","t"," ","A"," ","B","o","a","r","d">>
    /\ board_names = <<<<"n","o","t","_","a","_","b","o","a","r","d">>>>
    /\ error = "KeyError"
    /\ pc = "exit"

\* two names differ at most in letter case and in space versus underscore
FoldChar(c) == IF c = " " THEN "_" ELSE LowerChar(c)

SameModuloCaseAndSpace(s, t) ==
    /\ Len(s) = Len(t)
    /\ \A n \in 1..Len(s) : FoldChar(s[n]) = FoldChar(t[n])

\* a name has no upper-case letter and no space
IsNormalized(s) ==
    \A n \in 1..Len(s) :
        /\ s[n] # " "
        /\ \A m \in 1..Len(UpperChars) : s[n] # UpperChars[m]

\* main() is about to look a name up in the registry, or has just done so
AtLookup == pc \in {"board", "soc_kwargs", "exit"}

\* the name given with --board was normalized before the lookup, and
\* normalizing it again changes nothing
NormalizedBeforeLookup ==
    (AtLookup /\ raw_board # AllBoards) =>
        /\ board_names = <<args.board>>
        /\ IsNormalized(args.board)
        /\ SameModuloCaseAndSpace(raw_board, args.board)
        /\ Normalize(args.board) = args.board

\* C9 (as claimed): the name is normalized before the lookup, normalization is
\* idempotent, and any two --board values that differ only in letter case or
\* in space versus underscore select the same names to look up.
C9_AnyTwoInputs ==
    /\ NormalizedBeforeLookup
    /\ AtLookup =>
          \A other \in RawBoards :
              SameModuloCaseAndSpace(raw_board, other)
                  => Selection(other) = board_names

\* C9 (amended): the same, for any two --board values neither of which is
\* exactly "all": that keyword is compared before normalization, so "ALL" is
\* looked up as the name "all", which the registry does not hold.
C9_InputsOtherThanAll ==
    /\ NormalizedBeforeLookup
    /\ (AtLookup /\ raw_board # AllBoards) =>
          \A other \in RawBoards \ {AllBoards} :
              SameModuloCaseAndSpace(raw_board, other)
                  => Selection(other) = board_names

\* C9 witness: --board "Arty A7" has selected the entry arty_a7 and built the
\* ArtyA7 descriptor, as "ARTY_A7" and "arty_a7" do.
C9_Witness ==
    /\ raw_board = <<"A","r","t","y"," ","A","7">>
    /\ pc = "soc_kwargs"
    /\ board = ArtyA7
    /\ Selection(<<"A","R","T","Y","_","A","7">>) = board_names
    /\ Selection(<<"a","r","t","y","_","a","7">>) = board_names

\* the state part of C10, for a run started with --board all
SequentialFanOut ==
    raw_board = AllBoards =>
        /\ pc # "select" => board_names = RegistryKeys
        /\ idx \in 0..Len(RegistryKeys)
        /\ finished \in {idx - 1, idx}
        /\ pc = "board" => finished = idx - 1
        /\ pc \in {"for", "done"} => finished = idx
        /\ (idx >= 1 /\ pc # "board") => board.cls = supported_boards[idx].cls
        /\ pc = "done" => (finished = Len(supported_boards) /\ error = "")
        /\ error # "" => (pc = "exit" /\ finished = idx - 1)

\* C10: with --board all the pipelines are those of the registered boards, one
\* each, in registry order, each starting only when the previous one has run
\* its last statement; once a step has failed the run is over: no further
\* step of that board or of a later one is executed.
C10_FanOutAndAbort ==
    /\ []SequentialFanOut
    /\ [][error # "" => UNCHANGED <<pc, idx, board, soc, pipeline, finished,
                                    Board_soc_kwargs>>]_vars

\* C10 witness: in an "all" run the third board's pipeline has failed after
\* the first two ran to their end.
C10_Witness ==
    /\ raw_board = AllBoards
    /\ error # ""
    /\ idx = 3
    /\ finished = 2
    /\ pc = "exit"

\* the statement the run is at: the one that raised when it has aborted
FailedAt(exc) ==
    CASE exc = "KeyError"       -> "board"
      [] exc = "SoCLinux"       -> "soc"
      [] exc = "AssertionError: Unsupported video resolution" -> "framebuffer"
      [] exc = "builder.build"  -> "build"
      [] exc = "generate_dts"   -> "generate_dts"
      [] exc = "compile_dts"    -> "compile_dts"
      [] exc = "load_bitstream" -> "load"
      [] exc = "generate_doc"   -> "doc"
      [] OTHER                  -> "select"

At == IF pc = "exit" THEN FailedAt(error) ELSE pc

AssemblyStatements ==
    {"extension", "mmcm", "spiflash", "spisdcard", "sdcard", "ethernet",
     "rgb_led", "switches", "spi", "i2c", "xadc", "framebuffer",
     "icap_bitstream", "configure_boot"}

\* how many of the per-board stages lie behind the statement `at`
StagesBehind(at) ==
    CASE at \in {"soc_kwargs", "soc"}              -> 1
      [] at \in AssemblyStatements \cup {"build"}  -> 2
      [] at = "generate_dts"                       -> 3
      [] at = "compile_dts"                        -> 4
      [] at = "load"                               -> 5
      [] at = "doc"                                -> 6
      [] at \in {"for", "done"}                    -> 7
      [] OTHER                                     -> 0

\* the utility a board's load method hands the bitstream to
LoadMethod(b) ==
    CASE b.cls = "HADBadge"  -> Step("os.system", <<"dfu-util", <<"gateware_dir", "build_name", ".bit">>>>)
      [] b.cls = "CamLink4K" -> Step("os.system", <<"camlink", <<"gateware_dir", "build_name", ".bit">>>>)
      [] OTHER               -> Step("load_bitstream",
                                     <<"programmer", <<"gateware_dir", "build_name", b.bitstream_ext>>>>)

\* the collaborator steps of board b (registered as `name`) once k stages lie behind
StepsAfter(k, b, name, a) ==
    InitSideEffects(b.cls)
      \o <<Step("Board.__init__", <<b.cls>>)>>
      \o (IF k >= 2 THEN <<Step("SoCLinux", <<b.soc_cls>>)>> ELSE <<>>)
      \o (IF k >= 3 THEN <<Step("builder.build", <<a.build>>)>> ELSE <<>>)
      \o (IF k >= 4 THEN <<Step("generate_dts", <<name>>)>> ELSE <<>>)
      \o (IF k >= 5 THEN <<Step("compile_dts", <<name>>)>> ELSE <<>>)
      \o (IF k >= 6 /\ a.load THEN <<LoadMethod(b)>> ELSE <<>>)
      \o (IF k >= 7 /\ a.doc THEN <<Step("generate_doc", <<name>>)>> ELSE <<>>)

CountSteps(names) ==
    Cardinality({n \in 1..Len(pipeline) : pipeline[n].step \in names})

\* C11: for each board the steps happen in the order descriptor construction,
\* parameter resolution, SoC construction (with the resolved parameters),
\* assembly ending with configure_boot, builder.build(run = --build),
\* generate_dts, compile_dts, load, documentation.  At every statement of the
\* loop body, and at the statement that raised when the run has aborted, the
\* steps taken for the board are exactly those of the stages that lie behind:
\* build and the two device-tree steps whatever the flags are, load exactly
\* once if and only if --load was given, after compile_dts, through the
\* board's own method (dfu-util for HADBadge, camlink for CamLink4K, the
\* platform programmer otherwise) on a path ending in the board's bitstream
\* extension, and generate_doc if and only if --doc was given.
C11_PipelineOrder ==
    (idx >= 1 /\ StagesBehind(At) >= 1) =>
        /\ pipeline = StepsAfter(StagesBehind(At), board, board_name, args)
        /\ At \in AssemblyStatements =>
              /\ soc.constructed
              /\ soc.soc_cls = board.soc_cls
              /\ soc.kwargs = Board_soc_kwargs
              /\ \A n \in 1..Len(soc.calls) : soc.calls[n].fn # "configure_boot"
        /\ (StagesBehind(At) >= 2 /\ At \notin AssemblyStatements) =>
              /\ soc.soc_cls = board.soc_cls
              /\ soc.kwargs = Board_soc_kwargs
              /\ Len(soc.calls) >= 1
              /\ soc.calls[Len(soc.calls)].fn = "configure_boot"
        /\ StagesBehind(At) = 7 =>
              /\ CountSteps({"builder.build"}) = 1
              /\ CountSteps({"generate_dts"}) = 1
              /\ CountSteps({"compile_dts"}) = 1
              /\ CountSteps({"os.system", "load_bitstream"})
                    = Len(InitSideEffects(board.cls)) + (IF args.load THEN 1 ELSE 0)
              /\ CountSteps({"generate_doc"}) = (IF args.doc THEN 1 ELSE 0)

\* C11 witness: --board hadbadge --load --doc has run to its last statement;
\* dfu-util was handed the .bit file after compile_dts and before generate_doc.
C11_Witness ==
    /\ pc = "done"
    /\ board = HADBadge
    /\ args.load
    /\ args.doc
    /\ ~args.build
    /\ Len(pipeline) = 7
    /\ pipeline[3] = Step("builder.build", <<FALSE>>)
    /\ pipeline[5].step = "compile_dts"
    /\ pipeline[6] = Step("os.system", <<"dfu-util", <<"gateware_dir", "build_name", ".bit">>>>)
    /\ pipeline[7].step = "generate_doc"

====
